---- MODULE Spec2Model ----
(***************************************************************************)
(* Model of src/export.py: the command-line orchestrator that gathers the  *)
(* parameters of one backend (Pinecone, Weaviate, Qdrant), constructs the  *)
(* backend's exporter and calls get_data for one collection or for all.    *)
(*                                                                         *)
(* The exporters (ExportPinecone, ExportWeaviate, ExportQdrant), input(),  *)
(* getpass(), os.getenv() and argparse are the environment: every exporter *)
(* call may return or raise, every prompt may be answered with any value   *)
(* of a small alphabet.  `trace` records every interaction with the        *)
(* environment in program order, `out` what the program prints.            *)
(***************************************************************************)
EXTENDS Integers, Sequences, FiniteSets, TLC

VARIABLES
    argv,          \* sys.argv[1:]
    env,           \* value of PINECONE_API_KEY in the environment, or None
    args,          \* the args dict of the running main()
    pc,            \* position of the control flow
    depth,         \* number of active main() frames
    names,         \* the list returned by get_all_*_names()
    idx,           \* position of the for loop in names
    adapter_args,  \* the dict the exporter was constructed with
    trace,         \* history: interactions with the environment
    out,           \* everything printed
    outTwin        \* what a run differing only in the API key prints

vars == <<argv, env, args, pc, depth, names, idx, adapter_args, trace, out, outTwin>>

-----------------------------------------------------------------------------
(* Bounds and alphabets *)

MaxCollections == 2

None == "<None>"       \* Python None  (outside every input alphabet)
PyTrue == "<True>"     \* Python True
PyFalse == "<False>"   \* Python False

Choices == {"pinecone", "weaviate", "qdrant"}
DefaultModel == "text-embedding-ada-002"
Keys == {"k1", "k2"}
Selectors == {"all", "a"}
CollectionNames == {"a", "b"}
Outcomes == {"ok", "raise"}
BackendAnswers == Choices \cup {"foo"}

RECURSIVE SeqsUpTo(_, _)
SeqsUpTo(S, n) ==
    IF n = 0 THEN {<<>>}
    ELSE LET shorter == SeqsUpTo(S, n - 1)
         IN  shorter \cup {Append(s, x) : s \in shorter, x \in S}

NameLists == SeqsUpTo(CollectionNames, MaxCollections)

\* what the user may type at the prompt for arg_name
Answers(arg_name) ==
    CASE arg_name = "environment" -> {"env1"}
      [] arg_name = "url" -> {"u1"}
      [] arg_name = "model_name" -> {"m1"}
      [] arg_name = "include_crossrefs" -> {"Y", "N"}
      [] arg_name = "pinecone_api_key" -> Keys
      [] arg_name = "vector_database" -> BackendAnswers
      [] OTHER -> Selectors

-----------------------------------------------------------------------------
(* Helpers on dicts and on the history *)

SetKey(d, k, v) == [x \in (DOMAIN d) \cup {k} |-> IF x = k THEN v ELSE d[x]]

Ev(op, key, val, xref) == [op |-> op, key |-> key, val |-> val, xref |-> xref]

Printed(text, dict) == [text |-> text, dict |-> dict]

NoAdapter == [constructed |-> FALSE]

Twin(k) == IF k = "k1" THEN "k2" ELSE "k1"

\* the args dict of the run that differs only in the value of the API key
TwinArgs(a) ==
    IF "pinecone_api_key" \in DOMAIN a /\ a["pinecone_api_key"] \in Keys
    THEN [a EXCEPT !["pinecone_api_key"] = Twin(a["pinecone_api_key"])]
    ELSE a

-----------------------------------------------------------------------------
(* argparse, as configured in main() *)

OptionLike(t) ==
    t \in {"-m", "-e", "-i", "-u", "-c", "--vector_database"}

\* option string -> dest, per subparser
SubOptions(cmd) ==
    CASE cmd = "pinecone" -> ("-e" :> "environment") @@ ("-i" :> "index")
      [] cmd = "weaviate" -> ("-u" :> "url") @@ ("-c" :> "class_name")
                               @@ ("-i" :> "include_crossrefs")
      [] cmd = "qdrant" -> ("-u" :> "url") @@ ("-c" :> "collection")

SubDefaults(cmd) ==
    CASE cmd = "pinecone" -> ("environment" :> None) @@ ("index" :> "all")
      [] cmd = "weaviate" -> ("url" :> None) @@ ("class_name" :> None)
                               @@ ("include_crossrefs" :> None)
      [] cmd = "qdrant" -> ("url" :> None) @@ ("collection" :> None)

\* Python bool(str): only the empty string is false
PyBool(s) == IF s = "" THEN PyFalse ELSE PyTrue

\* the type= conversion of an option's value
Convert(dest, v) == IF dest = "include_crossrefs" THEN PyBool(v) ELSE v

ParseError == [err |-> TRUE, ns |-> <<>>]

RECURSIVE ParseSub(_, _, _, _)
ParseSub(cmd, toks, ns, extras) ==
    IF toks = <<>> THEN
        IF extras = <<>> THEN [err |-> FALSE, ns |-> ns] ELSE ParseError
    ELSE LET t == Head(toks) IN
        IF t \in DOMAIN SubOptions(cmd) THEN
            IF Len(toks) >= 2 /\ ~OptionLike(toks[2])
            THEN LET dest == SubOptions(cmd)[t]
                 IN  ParseSub(cmd, Tail(Tail(toks)),
                              SetKey(ns, dest, Convert(dest, toks[2])), extras)
            ELSE ParseError
        ELSE ParseSub(cmd, Tail(toks), ns, Append(extras, t))

RECURSIVE ParseTop(_, _, _)
ParseTop(toks, ns, extras) ==
    IF toks = <<>> THEN
        IF extras = <<>> THEN [err |-> FALSE, ns |-> ns] ELSE ParseError
    ELSE LET t == Head(toks) IN
        IF t = "-m" THEN
            IF Len(toks) >= 2 /\ ~OptionLike(toks[2])
            THEN ParseTop(Tail(Tail(toks)), SetKey(ns, "model_name", toks[2]), extras)
            ELSE ParseError
        ELSE IF OptionLike(t) THEN
            ParseTop(Tail(toks), ns, Append(extras, t))
        ELSE IF t \in Choices THEN
            ParseSub(t, Tail(toks),
                     SubDefaults(t) @@ SetKey(ns, "vector_database", t), extras)
        ELSE ParseError

\* parser.parse_args() followed by vars(args)
parse_args(toks) ==
    ParseTop(toks, ("model_name" :> DefaultModel) @@ ("vector_database" :> None), <<>>)

-----------------------------------------------------------------------------
(* Command lines the run may be started with *)

OptSeq(opt, vals) == {<<>>} \cup {<<opt, v>> : v \in vals}

GlobalPart == OptSeq("-m", {"m1"})

PineconeLines ==
    {<<"pinecone">> \o e \o i :
        e \in OptSeq("-e", {"env1"}), i \in OptSeq("-i", Selectors)}

WeaviateLines ==
    {<<"weaviate">> \o u \o c \o i :
        u \in OptSeq("-u", {"u1"}), c \in OptSeq("-c", Selectors),
        i \in OptSeq("-i", {"Y", "N", ""})}

QdrantLines ==
    {<<"qdrant">> \o u \o c :
        u \in OptSeq("-u", {"u1"}), c \in OptSeq("-c", Selectors)}

CommandLines ==
    {g \o l : g \in GlobalPart,
              l \in {<<>>, <<"foo">>} \cup PineconeLines \cup WeaviateLines \cup QdrantLines}

-----------------------------------------------------------------------------
(* State after the module is loaded, before main() runs *)

Init ==
    /\ argv \in CommandLines
    /\ env \in {None} \cup Keys
    /\ args = <<>>
    /\ pc = "main_parse"
    /\ depth = 1
    /\ names = <<>>
    /\ idx = 1
    /\ adapter_args = NoAdapter
    /\ trace = <<>>
    /\ out = <<>>
    /\ outTwin = <<>>

-----------------------------------------------------------------------------
(* set_arg_from_input, set_arg_from_password *)

\* variant: only a missing key counts, a None value is taken as present
NeedsValue_AbsentOnly(a, arg_name) == arg_name \notin DOMAIN a

\* `arg_name not in args or args[arg_name] is None`
NeedsValue(a, arg_name) == arg_name \notin DOMAIN a \/ a[arg_name] = None

SetArgFromInput(arg_name, here, next) ==
    /\ pc = here
    /\ IF NeedsValue(args, arg_name)
       THEN \E v \in Answers(arg_name) :
               /\ args' = SetKey(args, arg_name, v)
               /\ trace' = Append(trace, Ev("input", arg_name, v, "-"))
       ELSE UNCHANGED <<args, trace>>
    /\ pc' = next
    /\ UNCHANGED <<argv, env, depth, names, idx, adapter_args, out, outTwin>>

\* variant: the value already in args wins over the environment variable
SetArgFromPassword_ArgsFirst(arg_name, env_var_name, here, next) ==
    /\ pc = here
    /\ IF ~NeedsValue(args, arg_name)
       THEN /\ args' = args
            /\ trace' = trace
       ELSE IF env # None
       THEN /\ args' = SetKey(args, arg_name, env)
            /\ trace' = Append(trace, Ev("getenv", env_var_name, env, "-"))
       ELSE \E v \in Answers(arg_name) :
               /\ args' = SetKey(args, arg_name, v)
               /\ trace' = trace \o <<Ev("getenv", env_var_name, None, "-"),
                                      Ev("getpass", arg_name, v, "-")>>
    /\ pc' = next
    /\ UNCHANGED <<argv, env, depth, names, idx, adapter_args, out, outTwin>>

SetArgFromPassword(arg_name, env_var_name, here, next) ==
    /\ pc = here
    /\ IF env # None
       THEN /\ args' = SetKey(args, arg_name, env)
            /\ trace' = Append(trace, Ev("getenv", env_var_name, env, "-"))
       ELSE IF NeedsValue(args, arg_name)
       THEN \E v \in Answers(arg_name) :
               /\ args' = SetKey(args, arg_name, v)
               /\ trace' = trace \o <<Ev("getenv", env_var_name, None, "-"),
                                      Ev("getpass", arg_name, v, "-")>>
       ELSE /\ args' = args
            /\ trace' = Append(trace, Ev("getenv", env_var_name, None, "-"))
    /\ pc' = next
    /\ UNCHANGED <<argv, env, depth, names, idx, adapter_args, out, outTwin>>

-----------------------------------------------------------------------------
(* Calls of the exporter, shared by the three export functions *)

\* variant: the selector is tested for truthiness instead of against "all"
IsAll_Truthy(sel) == sel # ""

\* `args[key] == "all"`
IsAll(sel) == sel = "all"

\* the include_crossrefs argument of get_data (Weaviate only)
Xref(b) == IF b = "weaviate" THEN args["include_crossrefs"] ELSE "-"

\* Export<B>(args)
Construct(b, here, next) ==
    /\ pc = here
    /\ adapter_args' = args
    /\ \E o \in Outcomes :
        IF o = "ok"
        THEN /\ trace' = Append(trace, Ev("construct", b, "", "-"))
             /\ pc' = next
        ELSE /\ trace' = trace \o <<Ev("construct", b, "", "-"),
                                    Ev("raise", "construct", "", "-")>>
             /\ pc' = "raised"
    /\ UNCHANGED <<argv, env, args, depth, names, idx, out, outTwin>>

\* names = adapter.get_all_<x>_names()
ListAll(b, here, next) ==
    /\ pc = here
    /\ \E o \in Outcomes :
        IF o = "ok"
        THEN \E ns \in NameLists :
               /\ names' = ns
               /\ idx' = 1
               /\ trace' = Append(trace, Ev("list", b, "", "-"))
               /\ pc' = next
        ELSE /\ trace' = trace \o <<Ev("list", b, "", "-"),
                                    Ev("raise", "list", "", "-")>>
             /\ pc' = "raised"
             /\ UNCHANGED <<names, idx>>
    /\ UNCHANGED <<argv, env, args, depth, adapter_args, out, outTwin>>

\* variant: the list is walked from its end
LoopCall_Reversed(b, here, wait) ==
    /\ pc = here
    /\ idx <= Len(names)
    /\ trace' = Append(trace, Ev("get_data", b, names[Len(names) + 1 - idx], Xref(b)))
    /\ pc' = wait
    /\ UNCHANGED <<argv, env, args, depth, names, idx, adapter_args, out, outTwin>>

\* for name in names: adapter.get_data(name ...)   -- the call
LoopCall(b, here, wait) ==
    /\ pc = here
    /\ idx <= Len(names)
    /\ trace' = Append(trace, Ev("get_data", b, names[idx], Xref(b)))
    /\ pc' = wait
    /\ UNCHANGED <<argv, env, args, depth, names, idx, adapter_args, out, outTwin>>

\* variant: a raise of get_data is caught and the loop goes on
LoopReturn_Swallow(wait, loop) ==
    /\ pc = wait
    /\ \E o \in Outcomes :
        /\ trace' = Append(trace, Ev(IF o = "ok" THEN "return" ELSE "raise",
                                     "get_data", "", "-"))
        /\ idx' = idx + 1
        /\ pc' = loop
    /\ UNCHANGED <<argv, env, args, depth, names, adapter_args, out, outTwin>>

\* get_data returns (the loop advances) or raises (nothing catches it)
LoopReturn(wait, loop) ==
    /\ pc = wait
    /\ \E o \in Outcomes :
        IF o = "ok"
        THEN /\ trace' = Append(trace, Ev("return", "get_data", "", "-"))
             /\ idx' = idx + 1
             /\ pc' = loop
        ELSE /\ trace' = Append(trace, Ev("raise", "get_data", "", "-"))
             /\ idx' = idx
             /\ pc' = "raised"
    /\ UNCHANGED <<argv, env, args, depth, names, adapter_args, out, outTwin>>

\* the list is exhausted: the export function returns to main
LoopEnd(here, next) ==
    /\ pc = here
    /\ idx > Len(names)
    /\ pc' = next
    /\ UNCHANGED <<argv, env, args, depth, names, idx, adapter_args, trace, out, outTwin>>

\* adapter.get_data(args[key] ...)   -- the call
SingleCall(b, key, here, wait) ==
    /\ pc = here
    /\ trace' = Append(trace, Ev("get_data", b, args[key], Xref(b)))
    /\ pc' = wait
    /\ UNCHANGED <<argv, env, args, depth, names, idx, adapter_args, out, outTwin>>

SingleReturn(wait, next) ==
    /\ pc = wait
    /\ \E o \in Outcomes :
        IF o = "ok"
        THEN /\ trace' = Append(trace, Ev("return", "get_data", "", "-"))
             /\ pc' = next
        ELSE /\ trace' = Append(trace, Ev("raise", "get_data", "", "-"))
             /\ pc' = "raised"
    /\ UNCHANGED <<argv, env, args, depth, names, idx, adapter_args, out, outTwin>>

-----------------------------------------------------------------------------
(* export_pinecone *)

PineconeEnvironment == SetArgFromInput("environment", "pc_environment", "pc_index")

PineconeIndex == SetArgFromInput("index", "pc_index", "pc_model_name")

PineconeModelName == SetArgFromInput("model_name", "pc_model_name", "pc_api_key")

PineconeApiKey ==
    SetArgFromPassword("pinecone_api_key", "PINECONE_API_KEY", "pc_api_key", "pc_print")

\* print(args): the repr of a dict of strings shows every key and value
PineconePrintArgs ==
    /\ pc = "pc_print"
    /\ out' = Append(out, Printed("", args))
    /\ outTwin' = Append(outTwin, Printed("", TwinArgs(args)))
    /\ trace' = Append(trace, Ev("print", "args", "", "-"))
    /\ pc' = "pc_construct"
    /\ UNCHANGED <<argv, env, args, depth, names, idx, adapter_args>>

PineconeConstruct == Construct("pinecone", "pc_construct", "pc_if_all")

PineconeListAll ==
    /\ pc = "pc_if_all"
    /\ IsAll(args["index"])
    /\ ListAll("pinecone", "pc_if_all", "pc_loop")

PineconeLoopCall == LoopCall("pinecone", "pc_loop", "pc_loop_wait")

PineconeLoopReturn == LoopReturn("pc_loop_wait", "pc_loop")

PineconeLoopEnd == LoopEnd("pc_loop", "main_ret")

PineconeSingleCall ==
    /\ pc = "pc_if_all"
    /\ ~IsAll(args["index"])
    /\ SingleCall("pinecone", "index", "pc_if_all", "pc_single_wait")

PineconeSingleReturn == SingleReturn("pc_single_wait", "main_ret")

export_pinecone ==
    \/ PineconeEnvironment \/ PineconeIndex \/ PineconeModelName
    \/ PineconeApiKey \/ PineconePrintArgs \/ PineconeConstruct
    \/ PineconeListAll \/ PineconeLoopCall \/ PineconeLoopReturn
    \/ PineconeLoopEnd \/ PineconeSingleCall \/ PineconeSingleReturn

-----------------------------------------------------------------------------
(* export_weaviate *)

WeaviateUrl == SetArgFromInput("url", "wv_url", "wv_class_name")

WeaviateClassName == SetArgFromInput("class_name", "wv_class_name", "wv_crossrefs")

WeaviateIncludeCrossrefs ==
    SetArgFromInput("include_crossrefs", "wv_crossrefs", "wv_convert")

\* if args["include_crossrefs"] == "Y": True  else: False
WeaviateConvertCrossrefs ==
    /\ pc = "wv_convert"
    /\ args' = [args EXCEPT !["include_crossrefs"] =
                    IF args["include_crossrefs"] = "Y" THEN PyTrue ELSE PyFalse]
    /\ pc' = "wv_if_all"
    /\ UNCHANGED <<argv, env, depth, names, idx, adapter_args, trace, out, outTwin>>

WeaviateConstructAll ==
    /\ pc = "wv_if_all"
    /\ IsAll(args["class_name"])
    /\ Construct("weaviate", "wv_if_all", "wv_list")

WeaviateListAll == ListAll("weaviate", "wv_list", "wv_loop")

WeaviateLoopCall == LoopCall("weaviate", "wv_loop", "wv_loop_wait")

WeaviateLoopReturn == LoopReturn("wv_loop_wait", "wv_loop")

WeaviateLoopEnd == LoopEnd("wv_loop", "main_ret")

WeaviateConstructSingle ==
    /\ pc = "wv_if_all"
    /\ ~IsAll(args["class_name"])
    /\ Construct("weaviate", "wv_if_all", "wv_single")

WeaviateSingleCall == SingleCall("weaviate", "class_name", "wv_single", "wv_single_wait")

WeaviateSingleReturn == SingleReturn("wv_single_wait", "main_ret")

export_weaviate ==
    \/ WeaviateUrl \/ WeaviateClassName \/ WeaviateIncludeCrossrefs
    \/ WeaviateConvertCrossrefs \/ WeaviateConstructAll \/ WeaviateListAll
    \/ WeaviateLoopCall \/ WeaviateLoopReturn \/ WeaviateLoopEnd
    \/ WeaviateConstructSingle \/ WeaviateSingleCall \/ WeaviateSingleReturn

-----------------------------------------------------------------------------
(* export_qdrant *)

QdrantUrl == SetArgFromInput("url", "qd_url", "qd_collection")

QdrantCollection == SetArgFromInput("collection", "qd_collection", "qd_construct")

QdrantConstruct == Construct("qdrant", "qd_construct", "qd_if_all")

QdrantListAll ==
    /\ pc = "qd_if_all"
    /\ IsAll(args["collection"])
    /\ ListAll("qdrant", "qd_if_all", "qd_loop")

QdrantLoopCall == LoopCall("qdrant", "qd_loop", "qd_loop_wait")

QdrantLoopReturn == LoopReturn("qd_loop_wait", "qd_loop")

QdrantLoopEnd == LoopEnd("qd_loop", "main_ret")

QdrantSingleCall ==
    /\ pc = "qd_if_all"
    /\ ~IsAll(args["collection"])
    /\ SingleCall("qdrant", "collection", "qd_if_all", "qd_single_wait")

QdrantSingleReturn == SingleReturn("qd_single_wait", "main_ret")

export_qdrant ==
    \/ QdrantUrl \/ QdrantCollection \/ QdrantConstruct
    \/ QdrantListAll \/ QdrantLoopCall \/ QdrantLoopReturn
    \/ QdrantLoopEnd \/ QdrantSingleCall \/ QdrantSingleReturn

-----------------------------------------------------------------------------
(* main *)

\* args = vars(parser.parse_args()); argparse exits with status 2 on an error
MainParseArgs ==
    /\ pc = "main_parse"
    /\ LET r == parse_args(argv) IN
         IF r.err
         THEN /\ pc' = "sysexit"
              /\ trace' = Append(trace, Ev("exit", "argparse", "2", "-"))
              /\ args' = args
         ELSE /\ pc' = "main_dispatch"
              /\ trace' = trace
              /\ args' = r.ns
    /\ UNCHANGED <<argv, env, depth, names, idx, adapter_args, out, outTwin>>

\* the if / elif / elif / else on args["vector_database"]
MainDispatch ==
    /\ pc = "main_dispatch"
    /\ pc' = CASE args["vector_database"] = "pinecone" -> "pc_environment"
               [] args["vector_database"] = "weaviate" -> "wv_url"
               [] args["vector_database"] = "qdrant" -> "qd_url"
               [] OTHER -> "main_invalid"
    /\ UNCHANGED <<argv, env, args, depth, names, idx, adapter_args, trace, out, outTwin>>

\* the else branch: print, input, sys.argv.extend, main()
MainInvalidBackend ==
    /\ pc = "main_invalid"
    /\ \E v \in Answers("vector_database") :
        /\ args' = SetKey(args, "vector_database", v)
        /\ argv' = argv \o <<"--vector_database", v>>
        /\ trace' = trace \o <<Ev("print", "text", "Invalid vector database", "-"),
                               Ev("input", "vector_database", v, "-")>>
    /\ out' = Append(out, Printed("Invalid vector database", <<>>))
    /\ outTwin' = Append(outTwin, Printed("Invalid vector database", <<>>))
    /\ depth' = depth + 1
    /\ pc' = "main_parse"
    /\ UNCHANGED <<env, names, idx, adapter_args>>

\* variant: main returns without the completion message
MainPrintCompleted_Silent ==
    /\ pc = "main_ret"
    /\ depth' = depth - 1
    /\ pc' = IF depth - 1 = 0 THEN "done" ELSE "main_ret"
    /\ UNCHANGED <<argv, env, args, names, idx, adapter_args, trace, out, outTwin>>

\* print("Export completed.") and return from this frame of main
MainPrintCompleted ==
    /\ pc = "main_ret"
    /\ out' = Append(out, Printed("Export completed.", <<>>))
    /\ outTwin' = Append(outTwin, Printed("Export completed.", <<>>))
    /\ trace' = Append(trace, Ev("print", "text", "Export completed.", "-"))
    /\ depth' = depth - 1
    /\ pc' = IF depth - 1 = 0 THEN "done" ELSE "main_ret"
    /\ UNCHANGED <<argv, env, args, names, idx, adapter_args>>

main == MainParseArgs \/ MainDispatch \/ MainInvalidBackend \/ MainPrintCompleted

Next == main \/ export_pinecone \/ export_weaviate \/ export_qdrant

Spec == Init /\ [][Next]_vars

-----------------------------------------------------------------------------
(* The two helpers on their own, called on an arbitrary args dict *)

FnKeys == {"environment", "pinecone_api_key"}
FnValues == {None, "env1", "k1"}
FnArgs == UNION {[D -> FnValues] : D \in SUBSET FnKeys}

InitFn ==
    /\ argv = <<>>
    /\ env \in {None} \cup Keys
    /\ args \in FnArgs
    /\ pc \in {"fn_input", "fn_password"}
    /\ depth = 1
    /\ names = <<>>
    /\ idx = 1
    /\ adapter_args = NoAdapter
    /\ trace = <<>>
    /\ out = <<>>
    /\ outTwin = <<>>

FnSetArgFromInput == \E k \in FnKeys : SetArgFromInput(k, "fn_input", "fn_done")

FnSetArgFromPassword ==
    SetArgFromPassword("pinecone_api_key", "PINECONE_API_KEY", "fn_password", "fn_done")

NextFn == FnSetArgFromInput \/ FnSetArgFromPassword

SpecFn == InitFn /\ [][NextFn]_vars

-----------------------------------------------------------------------------
(* Reading the history *)

Events(op) == SelectSeq(trace, LAMBDA e : e.op = op)

Has(op) == \E i \in 1..Len(trace) : trace[i].op = op

GetDataNames == [i \in 1..Len(Events("get_data")) |-> Events("get_data")[i].val]

IsPrefix(s, t) == Len(s) <= Len(t) /\ \A i \in 1..Len(s) : s[i] = t[i]

CompletedPrinted(o) == \E i \in 1..Len(o) : o[i].text = "Export completed."

\* the subcommand on the command line the run was started with
Backend ==
    IF \E i \in 1..Len(argv) : argv[i] \in Choices /\ (i = 1 \/ argv[i-1] # "--vector_database")
    THEN argv[CHOOSE i \in 1..Len(argv) :
                 argv[i] \in Choices /\ (i = 1 \/ argv[i-1] # "--vector_database")]
    ELSE None

\* the value given with option opt on the command line, None if not given
CmdLineValue(opt) ==
    IF \E i \in 1..(Len(argv) - 1) : argv[i] = opt
    THEN argv[1 + CHOOSE i \in 1..(Len(argv) - 1) : argv[i] = opt]
    ELSE None

\* what the user typed at the prompt for key, None if there was no prompt
PromptAnswer(key) ==
    IF \E i \in 1..Len(trace) : trace[i].op = "input" /\ trace[i].key = key
    THEN trace[CHOOSE i \in 1..Len(trace) :
                   trace[i].op = "input" /\ trace[i].key = key].val
    ELSE None

SelectorKey(b) ==
    CASE b = "pinecone" -> "index"
      [] b = "weaviate" -> "class_name"
      [] OTHER -> "collection"

SelectorOption(b) == IF b = "pinecone" THEN "-i" ELSE "-c"

\* the collection selector of the run: the option's value, else the answer
\* at the prompt, else (Pinecone only) the option's default
UserSelector ==
    IF Backend = None THEN None
    ELSE IF CmdLineValue(SelectorOption(Backend)) # None
         THEN CmdLineValue(SelectorOption(Backend))
    ELSE IF PromptAnswer(SelectorKey(Backend)) # None
         THEN PromptAnswer(SelectorKey(Backend))
    ELSE IF Backend = "pinecone" THEN "all"
    ELSE None

\* every call of the exporter is followed at once by its own return or raise
CallsDoNotOverlap ==
    \A i \in 1..Len(trace) :
        (trace[i].op = "get_data" /\ i < Len(trace))
            => trace[i + 1].op \in {"return", "raise"}

-----------------------------------------------------------------------------
(* C1: with the selector "all", get_data is called once per name of the    *)
(* returned list and for nothing else, in the list's order, one call at a  *)
(* time; the list operation is called once, before the first get_data.     *)
C1_ExportAllVisitsListInOrder ==
    UserSelector = "all" =>
        /\ IsPrefix(GetDataNames, names)
        /\ Len(Events("list")) <= 1
        /\ (Has("get_data") => Has("list"))
        /\ CallsDoNotOverlap
        /\ (pc \in {"main_ret", "done"} => Has("list") /\ GetDataNames = names)

C1_Witness ==
    /\ pc = "done"
    /\ UserSelector = "all"
    /\ names = <<"a", "b">>
    /\ GetDataNames = <<"a", "b">>

(* C2: with a selector other than "all", the list operation is never       *)
(* called, get_data is called once, with the name the user gave, and       *)
(* nothing is called between the constructor and get_data.                 *)
C2_SingleNameExportedDirectly ==
    (UserSelector # None /\ UserSelector # "all") =>
        /\ ~Has("list")
        /\ Len(Events("get_data")) <= 1
        /\ \A i \in 1..Len(GetDataNames) : GetDataNames[i] = UserSelector
        /\ \A i \in 1..Len(trace) :
              (trace[i].op = "construct" /\ i < Len(trace))
                  => trace[i + 1].op \in {"get_data", "raise"}
        /\ (pc \in {"main_ret", "done"} => Len(Events("get_data")) = 1)

C2_Witness ==
    /\ pc = "done"
    /\ UserSelector = "a"
    /\ GetDataNames = <<"a">>

C4_CompletedIsFinalOutput ==
    /\ \A i \in 1..Len(out) : out[i].text = "Export completed." => i = Len(out)
    /\ \A i \in 1..Len(trace) : trace[i].val = "Export completed." => i = Len(trace)
    /\ (pc = "done" => CompletedPrinted(out))
    /\ (CompletedPrinted(out) => pc \in {"done", "main_ret"})

C4_Witness ==
    /\ pc = "done"
    /\ Has("get_data")
    /\ out[Len(out)].text = "Export completed."

(* C5: after the re-prompt has been answered with a valid backend name,    *)
(* the run does not exit with a failure.                                   *)
C5_ValidNameAtRepromptRunsExport ==
    (\E i \in 1..Len(trace) :
        /\ trace[i].op = "input"
        /\ trace[i].key = "vector_database"
        /\ trace[i].val \in Choices)
    => pc # "sysexit"

(* C6: for Weaviate, get_data receives include_crossrefs = True exactly    *)
(* when the user answered Y, on the command line or at the prompt.         *)
C6_CrossrefsFollowAnswer ==
    \A i \in 1..Len(trace) :
        (trace[i].op = "get_data" /\ trace[i].key = "weaviate") =>
            LET answer == IF CmdLineValue("-i") # None
                          THEN CmdLineValue("-i")
                          ELSE PromptAnswer("include_crossrefs")
            IN  (trace[i].xref = PyTrue) <=> (answer = "Y")

(* C7: a raise is the last interaction of the run: nothing is called,      *)
(* prompted or printed after it, the run ends with the exception and       *)
(* "Export completed." is not printed.                                     *)
C7_FailureIsTerminal ==
    /\ \A i \in 1..Len(trace) :
          trace[i].op = "raise" => (i = Len(trace) /\ pc = "raised")
    /\ (pc = "raised" =>
          /\ ~CompletedPrinted(out)
          /\ trace # <<>>
          /\ trace[Len(trace)].op = "raise")

C7_Witness ==
    /\ pc = "raised"
    /\ Len(Events("get_data")) = 2
    /\ trace[Len(trace)].key = "get_data"

\* the phase an interaction belongs to
Rank(e) ==
    CASE e.op \in {"input", "getenv", "getpass"} -> 1
      [] e.op = "print" /\ e.val # "Export completed." -> 1
      [] e.op = "construct" -> 2
      [] e.op = "list" -> 2
      [] e.op \in {"get_data", "return"} -> 3
      [] e.op = "print" /\ e.val = "Export completed." -> 4
      [] OTHER -> 5

ParamKeys(b) ==
    CASE b = "pinecone" -> {"environment", "index", "model_name", "pinecone_api_key"}
      [] b = "weaviate" -> {"url", "class_name", "include_crossrefs", "model_name"}
      [] OTHER -> {"url", "collection", "model_name"}

(* C8: the interactions of a run are ordered by phase (configuration,      *)
(* target resolution, export, completion), the list operation precedes     *)
(* every get_data, and the exporter is constructed with every parameter    *)
(* of its backend present and not None.                                    *)
C8_PhasesInOrder ==
    /\ \A i \in 1..Len(trace) : \A j \in 1..Len(trace) :
          i < j => Rank(trace[i]) <= Rank(trace[j])
    /\ \A i \in 1..Len(trace) : \A j \in 1..Len(trace) :
          (trace[i].op = "list" /\ trace[j].op = "get_data") => i < j
    /\ (Has("get_data") \/ Has("list") => Has("construct"))
    /\ (adapter_args # NoAdapter =>
          \A k \in ParamKeys(args["vector_database"]) :
              k \in DOMAIN adapter_args /\ adapter_args[k] # None)

C8_Witness ==
    /\ pc = "done"
    /\ Has("input")
    /\ Has("list")
    /\ Has("get_data")
    /\ adapter_args # NoAdapter

ConnectionKeys(b) ==
    CASE b = "pinecone" -> ("-e" :> "environment") @@ ("-i" :> "index")
      [] b = "weaviate" -> ("-u" :> "url") @@ ("-c" :> "class_name")
      [] OTHER -> ("-u" :> "url") @@ ("-c" :> "collection")

(* C9: when the export starts, every connection parameter and selector     *)
(* not given on the command line has been prompted for, and every one      *)
(* given has been neither prompted for nor changed.                        *)
C9_MissingValuesArePrompted ==
    adapter_args # NoAdapter =>
        \A o \in DOMAIN ConnectionKeys(Backend) :
            LET k == ConnectionKeys(Backend)[o] IN
            IF CmdLineValue(o) = None
            THEN PromptAnswer(k) # None /\ adapter_args[k] = PromptAnswer(k)
            ELSE PromptAnswer(k) = None /\ adapter_args[k] = CmdLineValue(o)

(* C10: two runs that differ only in the value of the API key print the    *)
(* same.                                                                   *)
C10_OutputIndependentOfKey == out = outTwin

====
